---- MODULE Spec2Model ----
(***************************************************************************)
(* A model of telegres' PostgresPersistence                                *)
(* (src/telegres/_postgrespersistence.py): the five cached entities, the   *)
(* connection with its open transaction, the backing store, the retry      *)
(* wrapper and the public get/update/drop/flush operations.                *)
(***************************************************************************)
EXTENDS Integers, Sequences, FiniteSets, TLC

(***************************************************************************)
(* Python values.  Every value is a tagged tuple, so that values of        *)
(* different Python types are never equal:                                 *)
(*   <<"none">>            None                                            *)
(*   <<"str", s>>          a str                                           *)
(*   <<"int", n>>          an int                                          *)
(*   <<"dict", f>>         a dict, f a function from keys to values        *)
(*   <<"list", q>>         a list, q a sequence of values                  *)
(*   <<"tuple", q>>        a tuple                                         *)
(*   <<"strof", k>>        the str that json.dumps makes of the dict key k *)
(***************************************************************************)
PyNone == <<"none">>

PyStr(s) == <<"str", s>>

PyInt(n) == <<"int", n>>

PyDict(f) == <<"dict", f>>

PyList(q) == <<"list", q>>

PyTuple(q) == <<"tuple", q>>

EmptyDict == PyDict(<<>>)

IsDict(v) == v[1] = "dict"

IsSeq(v) == v[1] \in {"list", "tuple"}

\* A one-entry dict {k: v}.
Single(k, v) == PyDict([x \in {k} |-> v])

\* d[k] = v on a dict d.
DictSet(d, k, v) == PyDict([x \in (DOMAIN d[2]) \cup {k} |-> IF x = k THEN v ELSE d[2][x]])

\* d.pop(k, None) on a dict d.
DictPop(d, k) == PyDict([x \in (DOMAIN d[2]) \ {k} |-> d[2][x]])

\* d.get(k, dflt) on a dict d.
DictGet(d, k, dflt) == IF k \in DOMAIN d[2] THEN d[2][k] ELSE dflt

\* bool(v): None, empty containers, "" and 0 are falsy.
Truthy(v) ==
    CASE v[1] = "none" -> FALSE
      [] v[1] = "dict" -> DOMAIN v[2] # {}
      [] v[1] \in {"list", "tuple"} -> Len(v[2]) > 0
      [] v[1] = "str" -> v[2] # ""
      [] v[1] = "int" -> v[2] # 0
      [] OTHER -> TRUE

(***************************************************************************)
(* json.dumps followed by the store's jsonb column and psycopg's load of   *)
(* it: what a document looks like when it is read back.  Tuples come back  *)
(* as lists and every dict key comes back as a str.  The module imports    *)
(* ujson when it is installed and the standard json otherwise; the two     *)
(* differ on a key that is a tuple (json raises TypeError, ujson writes     *)
(* str(key)), so the build is an input (uj).                               *)
(***************************************************************************)
JsonError == <<"error">>

\* The key json.dumps writes for the dict key k.
JsonKey(k, uj) ==
    CASE k[1] \in {"str", "strof"} -> k
      [] k[1] \in {"int", "none"} -> <<"strof", k>>
      [] k[1] = "tuple" -> IF uj THEN <<"strof", k>> ELSE JsonError
      [] OTHER -> JsonError

RECURSIVE JsonRoundTrip(_, _)
JsonRoundTrip(v, uj) ==
    CASE v[1] \in {"none", "str", "int", "strof"} -> v
      [] v[1] \in {"list", "tuple"} ->
           LET q == [i \in 1..Len(v[2]) |-> JsonRoundTrip(v[2][i], uj)]
           IN  IF \E i \in 1..Len(q) : q[i] = JsonError THEN JsonError ELSE PyList(q)
      [] v[1] = "dict" ->
           LET f == v[2]
               keys == {JsonKey(k, uj) : k \in DOMAIN f}
               g == [jk \in keys |->
                        JsonRoundTrip(f[CHOOSE k \in DOMAIN f : JsonKey(k, uj) = jk], uj)]
           IN  IF JsonError \in keys \/ (\E jk \in keys : g[jk] = JsonError)
               THEN JsonError
               ELSE PyDict(g)
      [] OTHER -> JsonError

(***************************************************************************)
(* The backing store.  A database state is a record                        *)
(*   schema : whether the configured schema exists                         *)
(*   tables : the telegram_<entity> tables that exist                      *)
(*   trig   : the tables that carry the set_timestamp trigger              *)
(*   rows   : per table, the function id -> data of its rows               *)
(* db is the committed state and tx is what the engine's connection sees:  *)
(* the committed state plus the writes of its open transaction.            *)
(***************************************************************************)
TableNames == {"user", "chat", "bot", "callback", "conversations"}

NoRows == [t \in TableNames |-> <<>>]

EmptyDb == [schema |-> FALSE, tables |-> {}, trig |-> {}, rows |-> NoRows]

(***************************************************************************)
(* The state one call threads through its statements:                      *)
(*   conn  : "none" (postgres_connection is None), "open", or "aborted"    *)
(*           (open, in a transaction that a failed statement aborted)      *)
(*   tx, db: as above                                                      *)
(*   exc   : the exception being raised, "none" when there is none         *)
(*   val   : the value returned                                            *)
(*   stmts : the kinds of statement issued so far                          *)
(*   tries : per kind of statement, how many times it was attempted        *)
(*   errs  : the errors the statements met                                 *)
(*   n     : the interactions with the store attempted so far (statements, *)
(*           commits and connects), failed the ones that found the store   *)
(*           or the connection gone                                        *)
(*   plan  : when the store is unreachable during the call                 *)
(***************************************************************************)
Raise(s, e) == [s EXCEPT !.exc = e]

Return(s, v) == [s EXCEPT !.val = v]

StatementKinds ==
    {"connect", "check_table", "check_schema", "create_schema", "create_function",
     "create_trigger", "create_table", "check_key", "insert", "update", "select", "commit"}

\* A fault plan: the store is unreachable at the call's interaction number at
\* (0: never), and, when ever is set, at every interaction after it.
NoFault == [at |-> 0, ever |-> FALSE]

\* Whether the interaction that comes next finds the store unreachable
\* (psycopg.OperationalError).
Unreachable(s) ==
    /\ s.plan.at > 0
    /\ \/ s.n + 1 = s.plan.at
       \/ s.plan.ever /\ s.n + 1 > s.plan.at

\* One more interaction of the given kind.
Tally(s, kind) ==
    [s EXCEPT !.n = @ + 1, !.stmts = @ \cup {kind}, !.tries[kind] = @ + 1]

\* The interaction found the store or the connection gone: psycopg raises
\* OperationalError, the connection object is unusable from then on and its
\* transaction is lost.
Lost(s) ==
    [s EXCEPT !.conn = "broken", !.tx = s.db, !.exc = "OperationalError",
              !.failed = @ + 1, !.errs = @ \cup {"OperationalError"}]

\* One cursor.execute: err is the SQL error the statement meets ("none" if it
\* runs), tx2 the transaction's view after it and v its result.  A statement
\* on a connection whose transaction is aborted fails with InFailedSqlTransaction
\* (an InternalError); a failed statement aborts the transaction.
Execute(s, kind, err, tx2, v) ==
    IF s.conn = "none" THEN Raise(s, "AttributeError")
    ELSE LET s1 == Tally(s, kind)
         IN  IF s.conn = "broken" \/ Unreachable(s) THEN Lost(s1)
             ELSE IF s.conn = "aborted"
                  THEN [s1 EXCEPT !.exc = "InternalError",
                                  !.errs = @ \cup {"InternalError"}]
             ELSE IF err # "none"
                  THEN [s1 EXCEPT !.conn = "aborted", !.exc = err, !.errs = @ \cup {err}]
             ELSE [s1 EXCEPT !.tx = tx2, !.val = v]

\* connection.commit(): makes the transaction's writes the committed state; on
\* an aborted transaction the server rolls back instead and reports no error.
Commit(s) ==
    IF s.conn = "none" THEN Raise(s, "AttributeError")
    ELSE LET s1 == Tally(s, "commit")
         IN  IF s.conn = "broken" \/ Unreachable(s) THEN Lost(s1)
             ELSE IF s.conn = "aborted" THEN [s1 EXCEPT !.conn = "open", !.tx = s.db]
             ELSE [s1 EXCEPT !.db = s.tx]

\* s; Op: the rest of a function body runs only while no exception is raised.
Then(s, Op(_)) == IF s.exc # "none" THEN s ELSE Op(s)

(***************************************************************************)
(* @retry(stop=stop_after_attempt(3), wait=wait_exponential()): tenacity's *)
(* default retry condition retries on every exception, and when the last   *)
(* attempt fails too it raises RetryError.                                 *)
(***************************************************************************)
StopAfterAttempt == 3

RECURSIVE Attempt(_, _, _)
Attempt(Body(_), s, k) ==
    LET r == Body(s)
    IN  IF r.exc = "none" THEN r
        ELSE IF k >= StopAfterAttempt THEN Raise(r, "RetryError")
        ELSE Attempt(Body, Raise(r, "none"), k + 1)

Retry(Body(_), s) == Attempt(Body, s, 1)

\* psycopg.connect and connection.cursor(): a new session; the transaction
\* the previous session had open is lost with it.  When the store is
\* unreachable the OperationalError is turned into a TypeError and
\* postgres_connection keeps what it held.
ConnectToDb(s) ==
    LET s1 == Tally(s, "connect")
    IN  IF Unreachable(s)
        THEN [s1 EXCEPT !.exc = "TypeError", !.failed = @ + 1,
                        !.errs = @ \cup {"OperationalError"}]
        ELSE [s1 EXCEPT !.conn = "open", !.tx = s.db]

\* except psycopg.OperationalError: self._connect_to_db(); raise TypeError(...)
Reconnect(s) ==
    IF s.exc = "OperationalError" THEN Raise(ConnectToDb(Raise(s, "none")), "TypeError")
    ELSE s

CheckTableBody(s, t) ==
    IF s.conn # "none"
    THEN Reconnect(Execute(s, "check_table", "none", s.tx, t \in s.tx.tables))
    ELSE Return(s, FALSE)

CheckTable(s, t) == Retry(LAMBDA x : CheckTableBody(x, t), s)

CheckSchemaBody(s) ==
    IF s.conn # "none"
    THEN Reconnect(Execute(s, "check_schema", "none", s.tx, s.tx.schema))
    ELSE Return(s, FALSE)

CheckSchema(s) == Retry(CheckSchemaBody, s)

CreateSchemaBody(s) ==
    IF s.conn # "none"
    THEN Reconnect(Then(Execute(s, "create_schema", "none",
                                [s.tx EXCEPT !.schema = TRUE], PyNone),
                        Commit))
    ELSE s

CreateSchema(s) == Retry(CreateSchemaBody, s)

\* CREATE OR REPLACE FUNCTION, then CREATE TRIGGER set_timestamp: the second
\* is an error when the table is missing and when the table already has a
\* trigger of that name.
CreateTimestampTriggerBody(s, t) ==
    Reconnect(Then(Execute(s, "create_function", "none", s.tx, PyNone),
                   LAMBDA x : Execute(x, "create_trigger",
                                      IF t \notin x.tx.tables THEN "UndefinedTable"
                                      ELSE IF t \in x.tx.trig THEN "ProgrammingError"
                                      ELSE "none",
                                      [x.tx EXCEPT !.trig = @ \cup {t}], PyNone)))

CreateTimestampTrigger(s, t) == Retry(LAMBDA x : CreateTimestampTriggerBody(x, t), s)

\* CREATE TABLE IF NOT EXISTS <schema>.telegram_<t>, the trigger when
\* postgres_timestamp is set, then commit.
CreateTableBody(s, t) ==
    IF s.conn # "none"
    THEN Reconnect(Then(Then(Execute(s, "create_table",
                                     IF s.tx.schema THEN "none" ELSE "ProgrammingError",
                                     [s.tx EXCEPT !.tables = @ \cup {t}], PyNone),
                             LAMBDA x : IF x.ts THEN CreateTimestampTrigger(x, t) ELSE x),
                        Commit))
    ELSE s

CreateTable(s, t) == Retry(LAMBDA x : CreateTableBody(x, t), s)

\* An existence check that runs the statement and always answers no.
CheckKeyInTableBodyBlind(s, t, id) ==
    IF s.conn # "none"
    THEN Reconnect(Execute(s, "check_key",
                           IF t \in s.tx.tables THEN "none" ELSE "UndefinedTable",
                           s.tx, FALSE))
    ELSE Return(s, FALSE)

\* SELECT EXISTS (SELECT 1 FROM <t> WHERE id = %s); without a connection the
\* function falls off its end and returns None, which is falsy.
CheckKeyInTableBody(s, t, id) ==
    IF s.conn # "none"
    THEN Reconnect(Execute(s, "check_key",
                           IF t \in s.tx.tables THEN "none" ELSE "UndefinedTable",
                           s.tx, id \in DOMAIN s.tx.rows[t]))
    ELSE Return(s, FALSE)

CheckKeyInTable(s, t, id) == Retry(LAMBDA x : CheckKeyInTableBody(x, t, id), s)

\* The row id -> data written into table t of the transaction's view.
PutRow(tx, t, id, data) ==
    [tx EXCEPT !.rows[t] = [k \in (DOMAIN @) \cup {id} |-> IF k = id THEN data ELSE @[k]]]

\* INSERT INTO <t> (id, data): an error when the table is missing and when the
\* id has a row already.
InsertRow(s, t, id, dump) ==
    Execute(s, "insert",
            IF t \notin s.tx.tables THEN "UndefinedTable"
            ELSE IF id \in DOMAIN s.tx.rows[t] THEN "IntegrityError"
            ELSE "none",
            PutRow(s.tx, t, id, dump), PyNone)

\* A write that is an INSERT whatever the existence check answered.
WriteRowInsertOnly(s, t, id, dump, exists) == InsertRow(s, t, id, dump)

\* The statement that follows the existence check: INSERT when it answered
\* no, UPDATE when it answered yes.
WriteRow(s, t, id, dump, exists) ==
    IF ~exists
    THEN InsertRow(s, t, id, dump)
    ELSE Execute(s, "update",
                 IF t \in s.tx.tables THEN "none" ELSE "UndefinedTable",
                 PutRow(s.tx, t, id, dump), PyNone)

\* One pass of the loop of _dump_table_to_db: json.dumps, the existence
\* check, then INSERT or UPDATE.
UpsertRow(s, t, id, doc) ==
    LET dump == JsonRoundTrip(doc, s.uj)
    IN  IF dump = JsonError
        THEN [s EXCEPT !.exc = "TypeError", !.errs = @ \cup {"TypeError"}]
        ELSE Then(CheckKeyInTable(s, t, id),
                  LAMBDA x : WriteRow(x, t, id, dump, x.val))

\* for unique_id in data.keys(): the keys left to visit.  A dict is visited in
\* insertion order, which the model does not keep: the order is a fixed one.
RECURSIVE DumpRows(_, _, _, _)
DumpRows(s, t, data, keys) ==
    IF keys = {} \/ s.exc # "none" THEN s
    ELSE LET id == CHOOSE k \in keys : TRUE
         IN  DumpRows(UpsertRow(s, t, id, data[2][id]), t, data, keys \ {id})

DumpTableToDbBody(s, t, data) ==
    IF s.conn # "none"
    THEN Reconnect(Then(DumpRows(s, t, data, DOMAIN data[2]), Commit))
    ELSE s

\* _dump_table_to_db that swallows what its last attempt raised.
DumpTableToDbQuiet(s, t, data) ==
    Raise(Retry(LAMBDA x : DumpTableToDbBody(x, t, data), s), "none")

DumpTableToDb(s, t, data) == Retry(LAMBDA x : DumpTableToDbBody(x, t, data), s)

\* SELECT id, data FROM <t>: the rows as a dict, or None when there are none.
SelectRows(s, t) ==
    IF s.conn # "none"
    THEN Reconnect(Then(Execute(s, "select",
                                IF t \in s.tx.tables THEN "none" ELSE "UndefinedTable",
                                s.tx, PyNone),
                        LAMBDA x : Return(x, IF DOMAIN x.tx.rows[t] # {}
                                             THEN PyDict(x.tx.rows[t]) ELSE PyNone)))
    ELSE Return(s, PyNone)

LoadTableFromDbBody(s, t) ==
    LET s1 == IF s.conn = "none" THEN ConnectToDb(s) ELSE s
        s2 == Then(Then(s1, CheckSchema),
                   LAMBDA x : IF ~x.val THEN CreateSchema(x) ELSE x)
        s3 == Then(Then(s2, LAMBDA x : CheckTable(x, t)),
                   LAMBDA x : IF ~x.val THEN CreateTable(x, t) ELSE x)
    IN  Then(s3, LAMBDA x : SelectRows(x, t))

LoadTableFromDb(s, t) == Retry(LAMBDA x : LoadTableFromDbBody(x, t), s)

(***************************************************************************)
(* The engine instance (__init__, lines 152-193) and its store.            *)
(***************************************************************************)
VARIABLES
    conn,                \* postgres_connection: "none", "open", "aborted" or "broken"
    tx,                  \* what the connection's transaction sees
    db,                  \* the committed store
    on_flush,            \* deferred-write mode
    postgres_timestamp,  \* timestamp columns and triggers
    ujson,               \* whether the build imported ujson
    store_data,          \* the kinds of data the Application persists
    plan,                \* when the store is unreachable during a call
    user_data,
    chat_data,
    bot_data,
    callback_data,
    conversations,
    last,                \* the last call: what it was and how it ended
    held,                \* the object the caller holds from the last get_*
    writers,             \* the instances that write to the store side by side
    serialized           \* whether their calls are made one at a time

vars == <<conn, tx, db, on_flush, postgres_timestamp, ujson, store_data, plan, user_data,
          chat_data, bot_data, callback_data, conversations, last, held, writers, serialized>>

\* The instances that share the store with this one, and how they are run.
concurrent == <<writers, serialized>>

config == <<on_flush, postgres_timestamp, ujson, store_data, plan>>

\* The state a call starts from.
Start ==
    [conn |-> conn, tx |-> tx, db |-> db, exc |-> "none", val |-> PyNone,
     stmts |-> {}, ts |-> postgres_timestamp, uj |-> ujson,
     tries |-> [k \in StatementKinds |-> 0], errs |-> {}, n |-> 0, failed |-> 0,
     plan |-> plan]

\* What a get_* leaves: the statement state, the cache slot, the value returned.
Out(s, cache, ret) == [s |-> s, cache |-> cache, ret |-> ret]

\* get_user_data and get_chat_data (lines 434-461) on their slot and table,
\* from the statement state s.
GetKeyedFrom(s, cache, t) ==
    IF Truthy(cache) THEN Out(s, cache, cache)
    ELSE LET r == LoadTableFromDb(s, t)
             c == IF Truthy(r.val) THEN r.val ELSE EmptyDict
         IN  IF r.exc # "none" THEN Out(r, cache, PyNone) ELSE Out(r, c, c)

GetKeyed(cache, t) == GetKeyedFrom(Start, cache, t)

\* get_bot_data (lines 463-478); context_types.bot_data() is dict().
GetBotData ==
    IF Truthy(bot_data) THEN Out(Start, bot_data, bot_data)
    ELSE LET r == LoadTableFromDb(Start, "bot")
         IN  IF r.exc # "none" THEN Out(r, bot_data, PyNone)
             ELSE IF ~Truthy(r.val) THEN Out(r, EmptyDict, EmptyDict)
             ELSE IF PyInt(1) \notin DOMAIN r.val[2]
                  THEN Out(Raise(r, "KeyError"), r.val, PyNone)
                  ELSE Out(r, r.val[2][PyInt(1)], r.val[2][PyInt(1)])

\* get_callback_data (lines 480-498): tuple() of the row that was loaded.
GetCallbackData ==
    IF Truthy(callback_data) THEN Out(Start, callback_data, callback_data)
    ELSE LET r == LoadTableFromDb(Start, "callback")
         IN  IF r.exc # "none" THEN Out(r, callback_data, PyNone)
             ELSE IF ~Truthy(r.val) THEN Out(r, r.val, PyNone)
             ELSE IF PyInt(1) \notin DOMAIN r.val[2]
                  THEN Out(Raise(r, "KeyError"), r.val, PyNone)
             ELSE IF ~IsSeq(r.val[2][PyInt(1)])
                  THEN Out(Raise(r, "TypeError"), r.val, PyNone)
                  ELSE LET c == PyTuple(r.val[2][PyInt(1)][2]) IN Out(r, c, c)

\* get_conversations that returns the whole mapping rather than the handler's.
GetConversationsUnscoped(name) ==
    IF Truthy(conversations) THEN Out(Start, conversations, conversations)
    ELSE LET r == LoadTableFromDb(Start, "conversations")
         IN  IF r.exc # "none" THEN Out(r, conversations, PyNone)
             ELSE IF ~Truthy(r.val)
                  THEN Out(r, Single(name, EmptyDict), Single(name, EmptyDict))
             ELSE IF PyInt(1) \notin DOMAIN r.val[2]
                  THEN Out(Raise(r, "KeyError"), r.val, PyNone)
                  ELSE Out(r, r.val[2][PyInt(1)], r.val[2][PyInt(1)])

\* get_conversations (lines 500-517): the value returned is the handler's
\* sub-mapping, {} when the handler has none.
GetConversations(name) ==
    IF Truthy(conversations)
    THEN Out(Start, conversations, DictGet(conversations, name, EmptyDict))
    ELSE LET r == LoadTableFromDb(Start, "conversations")
         IN  IF r.exc # "none" THEN Out(r, conversations, PyNone)
             ELSE IF ~Truthy(r.val)
                  THEN Out(r, Single(name, EmptyDict), EmptyDict)
             ELSE IF PyInt(1) \notin DOMAIN r.val[2]
                  THEN Out(Raise(r, "KeyError"), r.val, PyNone)
                  ELSE LET c == r.val[2][PyInt(1)]
                       IN  Out(r, c, DictGet(c, name, EmptyDict))

\* update_conversation (lines 519-537); setdefault adds the handler's entry
\* before the comparison.
UpdateConversation(name, key, new_state) ==
    LET c0 == IF ~Truthy(conversations) THEN EmptyDict ELSE conversations
        c1 == IF name \in DOMAIN c0[2] THEN c0 ELSE DictSet(c0, name, EmptyDict)
        c2 == DictSet(c1, name, DictSet(c1[2][name], key, new_state))
    IN  IF DictGet(c1[2][name], key, PyNone) = new_state THEN Out(Start, c1, PyNone)
        ELSE IF ~on_flush
             THEN Out(DumpTableToDb(Start, "conversations", Single(PyInt(1), c2)), c2, PyNone)
             ELSE Out(Start, c2, PyNone)

\* update_user_data and update_chat_data that write through in either mode.
UpdateKeyedWriteThrough(cache, t, id, data) ==
    LET c1 == IF cache = PyNone THEN EmptyDict ELSE cache
        c2 == DictSet(c1, id, data)
    IN  IF DictGet(c1, id, PyNone) = data THEN Out(Start, c1, PyNone)
        ELSE Out(DumpTableToDb(Start, t, c2), c2, PyNone)

\* update_user_data and update_chat_data (lines 539-567).
UpdateKeyed(cache, t, id, data) ==
    LET c1 == IF cache = PyNone THEN EmptyDict ELSE cache
        c2 == DictSet(c1, id, data)
    IN  IF DictGet(c1, id, PyNone) = data THEN Out(Start, c1, PyNone)
        ELSE IF ~on_flush THEN Out(DumpTableToDb(Start, t, c2), c2, PyNone)
             ELSE Out(Start, c2, PyNone)

\* update_bot_data and update_callback_data (lines 569-597).
UpdateSingleton(cache, t, data) ==
    IF cache = data THEN Out(Start, cache, PyNone)
    ELSE IF ~on_flush
         THEN Out(DumpTableToDb(Start, t, Single(PyInt(1), data)), data, PyNone)
         ELSE Out(Start, data, PyNone)

\* drop_chat_data and drop_user_data (lines 599-625).
DropKeyed(cache, t, id) ==
    LET c1 == DictPop(cache, id)
    IN  IF cache = PyNone THEN Out(Start, cache, PyNone)
        ELSE IF ~on_flush THEN Out(DumpTableToDb(Start, t, c1), c1, PyNone)
             ELSE Out(Start, c1, PyNone)

\* _dump_to_db (lines 359-372): every truthy slot, in this order.
DumpToDb(s) ==
    LET s1 == IF Truthy(user_data) THEN DumpTableToDb(s, "user", user_data) ELSE s
        s2 == Then(s1, LAMBDA x : IF Truthy(chat_data)
                                  THEN DumpTableToDb(x, "chat", chat_data) ELSE x)
        s3 == Then(s2, LAMBDA x : IF Truthy(bot_data)
                                  THEN DumpTableToDb(x, "bot", Single(PyInt(1), bot_data))
                                  ELSE x)
        s4 == Then(s3, LAMBDA x : IF Truthy(callback_data)
                                  THEN DumpTableToDb(x, "callback",
                                                     Single(PyInt(1), callback_data))
                                  ELSE x)
    IN  Then(s4, LAMBDA x : IF Truthy(conversations)
                            THEN DumpTableToDb(x, "conversations",
                                               Single(PyInt(1), conversations))
                            ELSE x)

\* flush (lines 648-658).
Flush ==
    IF Truthy(user_data) \/ Truthy(chat_data) \/ Truthy(bot_data)
       \/ Truthy(callback_data) \/ Truthy(conversations)
    THEN Then(DumpToDb(Start), Commit)
    ELSE Start

(***************************************************************************)
(* The object a get_* hands to its caller.  copy.deepcopy shares nothing   *)
(* with the cache; dict.copy() is a new dict whose values are the cache's  *)
(* own objects.  held records                                              *)
(*   ent   : the slot it came from ("none" when the caller holds nothing)  *)
(*   path  : where in that slot the object's original sits                 *)
(*   val   : the object as the caller sees it                              *)
(*   share : "deep" (nothing shared), "shallow" (a new container, shared   *)
(*           members), "same" (the cache's own object)                     *)
(* The caller of update_user_data, update_chat_data and update_bot_data    *)
(* holds the object it passed; the assignment of the argument to the slot  *)
(* stores that object itself.                                              *)
(***************************************************************************)
NoHeld == [ent |-> "none", path |-> <<>>, val |-> PyNone, share |-> "deep"]

\* A copy that shares its members with the cache, in place of copy.deepcopy.
DeepcopySharing(ent, path, v) == [ent |-> ent, path |-> path, val |-> v, share |-> "shallow"]

Deepcopy(ent, path, v) == [ent |-> ent, path |-> path, val |-> v, share |-> "deep"]

DictCopy(ent, path, v) == [ent |-> ent, path |-> path, val |-> v, share |-> "shallow"]

\* The argument of an update_*: the cache's own object once the update has
\* assigned it, the caller's alone when the update returned before that.
Passed(ent, path, v, assigned) ==
    [ent |-> ent, path |-> path, val |-> v, share |-> IF assigned THEN "same" ELSE "deep"]

\* The paths (sequences of dict keys and of list indices) into the value v.
RECURSIVE PathsIn(_)
PathsIn(v) ==
    CASE v[1] = "dict" ->
           UNION {{<<k>>} \cup {<<k>> \o p : p \in PathsIn(v[2][k])} : k \in DOMAIN v[2]}
      [] v[1] \in {"list", "tuple"} ->
           UNION {{<<PyInt(i)>>} \cup {<<PyInt(i)>> \o p : p \in PathsIn(v[2][i])} :
                  i \in 1..Len(v[2])}
      [] OTHER -> {}

\* Whether path p leads into v.
RECURSIVE HasPath(_, _)
HasPath(v, p) ==
    IF p = <<>> THEN TRUE
    ELSE CASE v[1] = "dict" -> Head(p) \in DOMAIN v[2] /\ HasPath(v[2][Head(p)], Tail(p))
           [] v[1] \in {"list", "tuple"} ->
                /\ Head(p)[1] = "int"
                /\ Head(p)[2] \in 1..Len(v[2])
                /\ HasPath(v[2][Head(p)[2]], Tail(p))
           [] OTHER -> FALSE

RECURSIVE GetAt(_, _)
GetAt(v, p) ==
    IF p = <<>> THEN v
    ELSE IF v[1] = "dict" THEN GetAt(v[2][Head(p)], Tail(p))
    ELSE GetAt(v[2][Head(p)[2]], Tail(p))

\* v with the member at path p replaced by w.
RECURSIVE SetAt(_, _, _)
SetAt(v, p, w) ==
    IF p = <<>> THEN w
    ELSE IF v[1] = "dict"
         THEN <<"dict", [v[2] EXCEPT ![Head(p)] = SetAt(@, Tail(p), w)]>>
         ELSE <<v[1], [v[2] EXCEPT ![Head(p)[2]] = SetAt(@, Tail(p), w)]>>

\* The container an assignment through path p writes to.
Parent(v, p) == GetAt(v, SubSeq(p, 1, Len(p) - 1))

\* What the caller writes into an object it holds.
Marker == PyStr("mutated")

(***************************************************************************)
(* Inputs.                                                                 *)
(***************************************************************************)
MaxId == 2

\* {"a": [1]}: a document with a mutable member.
DocA == Single(PyStr("a"), PyList(<<PyInt(1)>>))

\* {1: "b"}: a document whose key json.dumps rewrites.
DocB == Single(PyInt(1), PyStr("b"))

Docs == {EmptyDict, DocA}

BotDocs == {EmptyDict, DocB}

\* ([("u", 1, {})], {"u": "c"}): callback data as CallbackDataCache gives it.
Cdc == PyTuple(<<PyList(<<PyTuple(<<PyStr("u"), PyInt(1), EmptyDict>>)>>),
                 Single(PyStr("u"), PyStr("c"))>>)

CallbackDocs == {Cdc}

\* The conversation key (111, None), handler names and states; a state is any
\* object, [1] is a mutable one.  The application has one persistent handler,
\* "conv1"; "other" is a handler name that is asked for and never updated.
ConvKeys == {PyTuple(<<PyInt(111), PyNone>>)}

Handlers == {PyStr("conv1")}

Names == Handlers \cup {PyStr("other")}

States == {PyNone, PyStr("STATE_A"), PyList(<<PyInt(1)>>)}

\* store_data (PersistenceInput, line 162): the Application calls the get_*,
\* update_* and drop_* of a kind of data only when that kind is persisted, and
\* get_conversations and update_conversation only when it has persistent
\* conversation handlers ("conversations").  A deployment persists one kind or
\* two; conversations come alone or with callback data.
Kinds == {"user", "chat", "bot", "callback", "conversations"}

StoreDataChoices ==
    {k \in SUBSET Kinds : /\ Cardinality(k) \in 1..2
                          /\ "conversations" \in k => k \subseteq {"conversations", "callback"}}

\* The user and chat ids in use: 1..MaxId where one kind is persisted, 1 alone
\* where two are.
Ids == {PyInt(i) : i \in 1..(IF Cardinality(store_data) = 1 THEN MaxId ELSE 1)}

(***************************************************************************)
(* The calls.                                                              *)
(***************************************************************************)
Called(op, name, id, arg, r) ==
    [op |-> op, name |-> name, id |-> id, arg |-> arg,
     exc |-> r.s.exc, ret |-> r.ret, stmts |-> r.s.stmts,
     tries |-> r.s.tries, errs |-> r.s.errs, n |-> r.s.n, failed |-> r.s.failed]

\* What every call does to the connection and the store.
Engine(r) ==
    /\ conn' = r.s.conn
    /\ db' = r.s.db
    /\ tx' = IF r.s.conn = "none" THEN r.s.db ELSE r.s.tx
    /\ UNCHANGED <<config, concurrent>>

Returned(r, h) == IF r.s.exc = "none" /\ r.ret # PyNone THEN h ELSE NoHeld

\* How many times one call can attempt a statement of kind k.  The retry
\* wrappers nest: a check or a creation inside a load or a dump is attempted
\* up to StopAfterAttempt times for each attempt of the load or dump, the
\* trigger's statements as often again for each attempt of _create_table; a
\* dump visits up to MaxId rows; commits are those of _create_schema, of
\* _create_table, of the dump of each table and of flush.
TriesBound(k) ==
    CASE k \in {"check_schema", "check_table", "create_schema", "create_table"}
           -> StopAfterAttempt * StopAfterAttempt
      [] k \in {"create_function", "create_trigger"}
           -> StopAfterAttempt * StopAfterAttempt * StopAfterAttempt
      [] k = "select" -> StopAfterAttempt
      [] k = "check_key" -> StopAfterAttempt * StopAfterAttempt * MaxId
      [] k \in {"insert", "update"} -> StopAfterAttempt * MaxId
      [] k = "commit" -> 2 * StopAfterAttempt * StopAfterAttempt
                         + Cardinality(TableNames) * StopAfterAttempt + 1

\* get_user_data whose load is given StopAfterAttempt more attempts.
get_user_data_insisting ==
    LET l == Attempt(LAMBDA x : LoadTableFromDbBody(x, "user"), Start, 1 - StopAfterAttempt)
        c == IF Truthy(l.val) THEN l.val ELSE EmptyDict
        r == IF Truthy(user_data) THEN Out(Start, user_data, user_data)
             ELSE IF l.exc # "none" THEN Out(l, user_data, PyNone) ELSE Out(l, c, c)
    IN  /\ "user" \in store_data
        /\ Engine(r)
        /\ user_data' = r.cache
        /\ last' = Called("get_user_data", PyNone, PyNone, PyNone, r)
        /\ held' = Returned(r, Deepcopy("user", <<>>, r.ret))
        /\ UNCHANGED <<chat_data, bot_data, callback_data, conversations>>

get_user_data ==
    LET r == GetKeyed(user_data, "user")
    IN  /\ "user" \in store_data
        /\ Engine(r)
        /\ user_data' = r.cache
        /\ last' = Called("get_user_data", PyNone, PyNone, PyNone, r)
        /\ held' = Returned(r, Deepcopy("user", <<>>, r.ret))
        /\ UNCHANGED <<chat_data, bot_data, callback_data, conversations>>

get_chat_data ==
    LET r == GetKeyed(chat_data, "chat")
    IN  /\ "chat" \in store_data
        /\ Engine(r)
        /\ chat_data' = r.cache
        /\ last' = Called("get_chat_data", PyNone, PyNone, PyNone, r)
        /\ held' = Returned(r, Deepcopy("chat", <<>>, r.ret))
        /\ UNCHANGED <<user_data, bot_data, callback_data, conversations>>

get_bot_data ==
    LET r == GetBotData
    IN  /\ "bot" \in store_data
        /\ Engine(r)
        /\ bot_data' = r.cache
        /\ last' = Called("get_bot_data", PyNone, PyNone, PyNone, r)
        /\ held' = Returned(r, Deepcopy("bot", <<>>, r.ret))
        /\ UNCHANGED <<user_data, chat_data, callback_data, conversations>>

get_callback_data ==
    LET r == GetCallbackData
    IN  /\ "callback" \in store_data
        /\ Engine(r)
        /\ callback_data' = r.cache
        /\ last' = Called("get_callback_data", PyNone, PyNone, PyNone, r)
        /\ held' = Returned(r, Deepcopy("callback", <<>>, r.ret))
        /\ UNCHANGED <<user_data, chat_data, bot_data, conversations>>

update_user_data(user_id, data) ==
    LET r == UpdateKeyed(user_data, "user", user_id, data)
    IN  /\ "user" \in store_data
        /\ Engine(r)
        /\ user_data' = r.cache
        /\ last' = Called("update_user_data", PyNone, user_id, data, r)
        /\ held' = Passed("user", <<user_id>>, data, r.cache # user_data)
        /\ UNCHANGED <<chat_data, bot_data, callback_data, conversations>>

update_chat_data(chat_id, data) ==
    LET r == UpdateKeyed(chat_data, "chat", chat_id, data)
    IN  /\ "chat" \in store_data
        /\ Engine(r)
        /\ chat_data' = r.cache
        /\ last' = Called("update_chat_data", PyNone, chat_id, data, r)
        /\ held' = Passed("chat", <<chat_id>>, data, r.cache # chat_data)
        /\ UNCHANGED <<user_data, bot_data, callback_data, conversations>>

update_bot_data(data) ==
    LET r == UpdateSingleton(bot_data, "bot", data)
    IN  /\ "bot" \in store_data
        /\ Engine(r)
        /\ bot_data' = r.cache
        /\ last' = Called("update_bot_data", PyNone, PyInt(1), data, r)
        /\ held' = Passed("bot", <<>>, data, r.cache # bot_data)
        /\ UNCHANGED <<user_data, chat_data, callback_data, conversations>>

update_callback_data(data) ==
    LET r == UpdateSingleton(callback_data, "callback", data)
    IN  /\ "callback" \in store_data
        /\ Engine(r)
        /\ callback_data' = r.cache
        /\ last' = Called("update_callback_data", PyNone, PyInt(1), data, r)
        /\ held' = NoHeld
        /\ UNCHANGED <<user_data, chat_data, bot_data, conversations>>

drop_chat_data(chat_id) ==
    LET r == DropKeyed(chat_data, "chat", chat_id)
    IN  /\ "chat" \in store_data
        /\ Engine(r)
        /\ chat_data' = r.cache
        /\ last' = Called("drop_chat_data", PyNone, chat_id, PyNone, r)
        /\ held' = NoHeld
        /\ UNCHANGED <<user_data, bot_data, callback_data, conversations>>

drop_user_data(user_id) ==
    LET r == DropKeyed(user_data, "user", user_id)
    IN  /\ "user" \in store_data
        /\ Engine(r)
        /\ user_data' = r.cache
        /\ last' = Called("drop_user_data", PyNone, user_id, PyNone, r)
        /\ held' = NoHeld
        /\ UNCHANGED <<chat_data, bot_data, callback_data, conversations>>

get_conversations(name) ==
    LET r == GetConversations(name)
    IN  /\ "conversations" \in store_data
        /\ Engine(r)
        /\ conversations' = r.cache
        /\ last' = Called("get_conversations", name, PyNone, PyNone, r)
        /\ held' = Returned(r, IF name \in DOMAIN r.cache[2]
                                THEN DictCopy("conversations", <<name>>, r.ret)
                                ELSE Deepcopy("conversations", <<name>>, r.ret))
        /\ UNCHANGED <<user_data, chat_data, bot_data, callback_data>>

update_conversation(name, key, new_state) ==
    LET r == UpdateConversation(name, key, new_state)
    IN  /\ "conversations" \in store_data
        /\ Engine(r)
        /\ conversations' = r.cache
        /\ last' = Called("update_conversation", name, key, new_state, r)
        /\ held' = NoHeld
        /\ UNCHANGED <<user_data, chat_data, bot_data, callback_data>>

flush ==
    LET r == Out(Flush, PyNone, PyNone)
    IN  /\ Engine(r)
        /\ last' = Called("flush", PyNone, PyNone, PyNone, r)
        /\ held' = NoHeld
        /\ UNCHANGED <<user_data, chat_data, bot_data, callback_data, conversations>>

\* The caller assigns through path p of the object the last get_* returned,
\* once, while the object is as it was returned.
\* A member the object shares with the cache changes in the cache too.
MutateReturned(p) ==
    /\ held.ent # "none"
    /\ p \in PathsIn(held.val)
    /\ Parent(held.val, p)[1] \in {"dict", "list"}
    /\ held.val = last.ret
    /\ held' = [held EXCEPT !.val = SetAt(@, p, Marker)]
    /\ LET shared == held.share = "shallow" /\ Len(p) >= 2
           q == held.path \o p
           Written(slot) == IF shared /\ HasPath(slot, q) THEN SetAt(slot, q, Marker)
                            ELSE slot
       IN  /\ user_data' = IF held.ent = "user" THEN Written(user_data) ELSE user_data
           /\ chat_data' = IF held.ent = "chat" THEN Written(chat_data) ELSE chat_data
           /\ bot_data' = IF held.ent = "bot" THEN Written(bot_data) ELSE bot_data
           /\ callback_data' = IF held.ent = "callback" THEN Written(callback_data)
                               ELSE callback_data
           /\ conversations' = IF held.ent = "conversations" THEN Written(conversations)
                               ELSE conversations
    /\ UNCHANGED <<conn, tx, db, config, last, concurrent>>

\* The caller assigns through path p of the object it passed to the last
\* update_*, once, while the object is as it was passed.  When the object is
\* the cache's own, the cache changes with it.
MutateArgument(p) ==
    /\ held.ent # "none"
    /\ last.op \in {"update_user_data", "update_chat_data", "update_bot_data"}
    /\ p \in PathsIn(held.val)
    /\ Parent(held.val, p)[1] \in {"dict", "list"}
    /\ held.val = last.arg
    /\ held' = [held EXCEPT !.val = SetAt(@, p, Marker)]
    /\ LET q == held.path \o p
           Written(slot) == IF held.share = "same" /\ slot # PyNone /\ HasPath(slot, q)
                            THEN SetAt(slot, q, Marker)
                            ELSE slot
       IN  /\ user_data' = IF held.ent = "user" THEN Written(user_data) ELSE user_data
           /\ chat_data' = IF held.ent = "chat" THEN Written(chat_data) ELSE chat_data
           /\ bot_data' = IF held.ent = "bot" THEN Written(bot_data) ELSE bot_data
    /\ UNCHANGED <<conn, tx, db, config, callback_data, conversations, last, concurrent>>

\* The process ends and a new instance is constructed (lines 152-193): every
\* slot is None again, there is no connection, and what the old connection had
\* not committed is gone.
NewInstance ==
    /\ conn' = "none"
    /\ tx' = db
    /\ on_flush' \in BOOLEAN
    /\ user_data' = PyNone
    /\ chat_data' = PyNone
    /\ bot_data' = PyNone
    /\ callback_data' = PyNone
    /\ conversations' = PyNone
    /\ last' = [op |-> "init", name |-> PyNone, id |-> PyNone, arg |-> PyNone,
                exc |-> "none", ret |-> PyNone, stmts |-> {},
                tries |-> [k \in StatementKinds |-> 0], errs |-> {}, n |-> 0, failed |-> 0]
    /\ held' = NoHeld
    /\ UNCHANGED <<db, postgres_timestamp, ujson, store_data, plan, concurrent>>

InitWith(choices, timestamps) ==
    /\ conn = "none"
    /\ db = EmptyDb
    /\ tx = EmptyDb
    /\ on_flush \in BOOLEAN
    /\ postgres_timestamp \in timestamps
    /\ store_data \in choices
    /\ plan = NoFault
    /\ ujson \in IF "conversations" \in store_data THEN BOOLEAN ELSE {FALSE}
    /\ user_data = PyNone
    /\ chat_data = PyNone
    /\ bot_data = PyNone
    /\ callback_data = PyNone
    /\ conversations = PyNone
    /\ last = [op |-> "init", name |-> PyNone, id |-> PyNone, arg |-> PyNone,
               exc |-> "none", ret |-> PyNone, stmts |-> {},
                tries |-> [k \in StatementKinds |-> 0], errs |-> {}, n |-> 0, failed |-> 0]
    /\ held = NoHeld
    /\ writers = <<>>
    /\ serialized = TRUE

\* postgres_timestamp defaults to True (line 161).
Init == InitWith(StoreDataChoices, {TRUE})

Next ==
    \/ get_user_data
    \/ get_chat_data
    \/ get_bot_data
    \/ get_callback_data
    \/ \E n \in Names : get_conversations(n)
    \/ \E i \in Ids, d \in Docs : update_user_data(i, d)
    \/ \E i \in Ids, d \in Docs : update_chat_data(i, d)
    \/ \E d \in BotDocs : update_bot_data(d)
    \/ \E d \in CallbackDocs : update_callback_data(d)
    \/ \E n \in Handlers, k \in ConvKeys, st \in States : update_conversation(n, k, st)
    \/ \E i \in Ids : drop_user_data(i)
    \/ \E i \in Ids : drop_chat_data(i)
    \/ flush
    \/ \E p \in PathsIn(held.val) : MutateReturned(p)
    \/ NewInstance

Spec == Init /\ [][Next]_vars

(***************************************************************************)
(* Provisioning on its own: _connect_to_db, _create_schema and             *)
(* _create_table called directly on the instance, with timestamp tracking  *)
(* (postgres_timestamp, line 161) on or off.  last.name is the table.      *)
(***************************************************************************)
connect_to_db ==
    LET r == Out(ConnectToDb(Start), PyNone, PyNone)
    IN  /\ Engine(r)
        /\ last' = Called("connect_to_db", PyNone, PyNone, PyNone, r)
        /\ UNCHANGED <<user_data, chat_data, bot_data, callback_data, conversations, held>>

create_schema ==
    LET r == Out(CreateSchema(Start), PyNone, PyNone)
    IN  /\ Engine(r)
        /\ last' = Called("create_schema", PyNone, PyNone, PyNone, r)
        /\ UNCHANGED <<user_data, chat_data, bot_data, callback_data, conversations, held>>

create_table(table) ==
    LET r == Out(CreateTable(Start, table), PyNone, PyNone)
    IN  /\ Engine(r)
        /\ last' = Called("create_table", PyStr(table), PyNone, PyNone, r)
        /\ UNCHANGED <<user_data, chat_data, bot_data, callback_data, conversations, held>>

InitProv ==
    /\ InitWith({Kinds}, BOOLEAN)
    /\ ~on_flush

NextProv ==
    \/ connect_to_db
    \/ create_schema
    \/ \E t \in TableNames : create_table(t)
    \/ NewInstance

SpecProv == InitProv /\ [][NextProv]_vars

(***************************************************************************)
(* The engine with a store that can be unreachable.  Between two calls the *)
(* plan for the next ones changes: the store is lost at the call's at-th   *)
(* interaction, for that interaction or from then on.  The deployment      *)
(* persists user data or bot data, and every document written is the same *)
(* one.                                                                    *)
(***************************************************************************)
MaxFaultAt == 3

FaultPlans == {NoFault} \cup {[at |-> k, ever |-> e] : k \in 1..MaxFaultAt, e \in BOOLEAN}

StoreOutage(p) ==
    /\ plan # p
    /\ plan' = p
    /\ UNCHANGED <<conn, tx, db, on_flush, postgres_timestamp, ujson, store_data, user_data,
                   chat_data, bot_data, callback_data, conversations, last, held, concurrent>>

InitFault == InitWith({{"user"}, {"bot"}}, {TRUE})

NextFault ==
    \/ get_user_data
    \/ get_bot_data
    \/ \E i \in Ids : update_user_data(i, DocA)
    \/ update_bot_data(DocB)
    \/ \E i \in Ids : drop_user_data(i)
    \/ flush
    \/ NewInstance
    \/ \E p \in FaultPlans : StoreOutage(p)

SpecFault == InitFault /\ [][NextFault]_vars

(***************************************************************************)
(* Several instances on one store.  Each has its own connection, cache and *)
(* open transaction and runs update_user_data in immediate mode, statement *)
(* by statement: the existence check, the INSERT or UPDATE, the commit.    *)
(* Every instance has loaded the user table before (its connection is      *)
(* open, its cache is {}).  The store runs the transactions at READ        *)
(* COMMITTED: a statement sees what is committed and what its own          *)
(* transaction wrote, and a write to a row that another open transaction   *)
(* has written waits for that transaction to end.  Of a writer the model   *)
(* keeps                                                                   *)
(*   conn  : its connection, as above                                      *)
(*   pend  : the user rows its open transaction has written                *)
(*   cache : its user_data                                                 *)
(*   pc    : "idle", "checked" (the existence check answered saw) or       *)
(*           "written" (the row is written, the commit is to come)         *)
(*   id    : the id of its call, exc how the call ended                    *)
(*   stmts, errs : as in a call's state                                    *)
(***************************************************************************)
Writers == {"w1", "w2"}

RaceIds == {PyInt(1)}

\* The statement state of an instance that has just been constructed on store.
FreshOn(store) ==
    [conn |-> "none", tx |-> store, db |-> store, exc |-> "none", val |-> PyNone,
     stmts |-> {}, ts |-> TRUE, uj |-> FALSE,
     tries |-> [k \in StatementKinds |-> 0], errs |-> {}, n |-> 0, failed |-> 0,
     plan |-> NoFault]

\* What writer w's connection sees: the committed rows and its own.
View(w) ==
    [db EXCEPT !.rows["user"] =
        [k \in (DOMAIN @) \cup DOMAIN writers[w].pend |->
            IF k \in DOMAIN writers[w].pend THEN writers[w].pend[k] ELSE @[k]]]

\* The statement state writer w's next statement starts from.
WriterState(w) ==
    [conn |-> writers[w].conn, tx |-> View(w), db |-> db, exc |-> "none", val |-> PyNone,
     stmts |-> writers[w].stmts, ts |-> postgres_timestamp, uj |-> ujson,
     tries |-> [k \in StatementKinds |-> 0], errs |-> writers[w].errs, n |-> 0,
     failed |-> 0, plan |-> plan]

\* A statement of the dump has raised: the attempts tenacity has left for
\* _dump_table_to_db, each from the start of the batch.
GiveUp(s, data) ==
    Attempt(LAMBDA x : DumpTableToDbBody(x, "user", data), Raise(s, "none"), 2)

\* update_user_data up to the answer of the existence check.
writer_update_user_data(w, user_id, data) ==
    LET me == writers[w]
        c1 == IF me.cache = PyNone THEN EmptyDict ELSE me.cache
        c2 == DictSet(c1, user_id, data)
        s0 == [WriterState(w) EXCEPT !.stmts = {}, !.errs = {}]
        r == IF JsonRoundTrip(data, ujson) = JsonError
             THEN [s0 EXCEPT !.exc = "TypeError", !.errs = @ \cup {"TypeError"}]
             ELSE CheckKeyInTable(s0, "user", user_id)
        q == IF r.exc = "none" THEN r ELSE GiveUp(r, c2)
    IN  /\ me.pc = "idle"
        /\ serialized => \A v \in Writers : writers[v].pc = "idle"
        /\ writers' = [writers EXCEPT ![w] =
              IF DictGet(c1, user_id, PyNone) = data
              THEN [me EXCEPT !.cache = c1, !.id = user_id, !.exc = "none",
                              !.stmts = {}, !.errs = {}]
              ELSE IF q.exc # "none"
                   THEN [me EXCEPT !.cache = c2, !.id = user_id, !.conn = q.conn,
                                   !.exc = q.exc, !.stmts = q.stmts, !.errs = q.errs]
                   ELSE [me EXCEPT !.cache = c2, !.id = user_id, !.pc = "checked",
                                   !.saw = q.val, !.exc = "none",
                                   !.stmts = q.stmts, !.errs = q.errs]]
        /\ UNCHANGED <<conn, tx, db, config, user_data, chat_data, bot_data, callback_data,
                       conversations, last, held, serialized>>

\* The INSERT or UPDATE the existence check has chosen.  It waits while
\* another transaction has a write to the row open.
writer_write_row(w) ==
    LET me == writers[w]
        r == WriteRow(WriterState(w), "user", me.id,
                      JsonRoundTrip(me.cache[2][me.id], ujson), me.saw)
        q == IF r.exc = "none" THEN r ELSE GiveUp(r, me.cache)
    IN  /\ me.pc = "checked"
        /\ \A v \in Writers \ {w} : me.id \notin DOMAIN writers[v].pend
        /\ writers' = [writers EXCEPT ![w] =
              IF q.exc # "none"
              THEN [me EXCEPT !.pc = "idle", !.conn = q.conn, !.exc = q.exc,
                              !.stmts = q.stmts, !.errs = q.errs]
              ELSE [me EXCEPT !.pc = "written",
                              !.pend = [k \in (DOMAIN @) \cup {me.id} |-> q.tx.rows["user"][k]],
                              !.stmts = q.stmts, !.errs = q.errs]]
        /\ UNCHANGED <<conn, tx, db, config, user_data, chat_data, bot_data, callback_data,
                       conversations, last, held, serialized>>

\* self.postgres_connection.commit(), which ends the call.
writer_commit(w) ==
    LET me == writers[w]
        r == Commit(WriterState(w))
    IN  /\ me.pc = "written"
        /\ db' = r.db
        /\ tx' = r.db
        /\ writers' = [writers EXCEPT ![w] =
              [me EXCEPT !.pc = "idle", !.pend = <<>>, !.conn = r.conn, !.exc = r.exc,
                         !.stmts = r.stmts, !.errs = r.errs]]
        /\ UNCHANGED <<conn, config, user_data, chat_data, bot_data, callback_data,
                       conversations, last, held, serialized>>

InitRace ==
    /\ conn = "none"
    /\ db = LoadTableFromDb(FreshOn(EmptyDb), "user").db
    /\ tx = db
    /\ on_flush = FALSE
    /\ postgres_timestamp = TRUE
    /\ ujson = FALSE
    /\ store_data = {"user"}
    /\ plan = NoFault
    /\ user_data = PyNone
    /\ chat_data = PyNone
    /\ bot_data = PyNone
    /\ callback_data = PyNone
    /\ conversations = PyNone
    /\ last = [op |-> "init", name |-> PyNone, id |-> PyNone, arg |-> PyNone,
               exc |-> "none", ret |-> PyNone, stmts |-> {},
               tries |-> [k \in StatementKinds |-> 0], errs |-> {}, n |-> 0, failed |-> 0]
    /\ held = NoHeld
    /\ writers = [w \in Writers |->
                    [conn |-> "open", pend |-> <<>>, cache |-> EmptyDict, pc |-> "idle",
                     saw |-> FALSE, id |-> PyNone, exc |-> "none", stmts |-> {},
                     errs |-> {}]]
    /\ serialized \in BOOLEAN

NextRace ==
    \/ \E w \in Writers, i \in RaceIds, d \in Docs : writer_update_user_data(w, i, d)
    \/ \E w \in Writers : writer_write_row(w)
    \/ \E w \in Writers : writer_commit(w)

SpecRace == InitRace /\ [][NextRace]_vars

(***************************************************************************)
(* The engine with a caller that goes on using the objects it passed: the  *)
(* deployment persists user, chat or bot data, and between two calls the   *)
(* caller may assign into the document it passed to the last update_*.     *)
(***************************************************************************)
InitAlias == InitWith({{"user"}, {"chat"}, {"bot"}}, {TRUE})

NextAlias ==
    \/ get_user_data
    \/ get_chat_data
    \/ get_bot_data
    \/ \E i \in Ids, d \in Docs : update_user_data(i, d)
    \/ \E i \in Ids, d \in Docs : update_chat_data(i, d)
    \/ \E d \in BotDocs : update_bot_data(d)
    \/ flush
    \/ \E p \in PathsIn(held.val) : MutateArgument(p)
    \/ NewInstance

SpecAlias == InitAlias /\ [][NextAlias]_vars

(***************************************************************************)
(* Claims.  last is the call that was made last and last' the call a step  *)
(* makes; in Spec a step that follows an update_* or a drop_* is a call,   *)
(* since the caller holds no returned object then.                         *)
(***************************************************************************)
\* The row of table t with id i holds the document d as json.dumps writes it.
HoldsRow(store, t, i, d) ==
    i \in DOMAIN store.rows[t] /\ store.rows[t][i] = JsonRoundTrip(d, ujson)

\* C1: update_X(id, D) followed by get_X() returns D for that id, for user,
\* chat, bot and callback data, in immediate and in deferred mode, for every
\* document D, the empty one included, whatever the store holds.
C1_RoundTrip ==
    [][(last.exc = "none" /\ last'.exc = "none") =>
         /\ (last.op = "update_user_data" /\ last'.op = "get_user_data")
               => DictGet(last'.ret, last.id, PyNone) = last.arg
         /\ (last.op = "update_chat_data" /\ last'.op = "get_chat_data")
               => DictGet(last'.ret, last.id, PyNone) = last.arg
         /\ (last.op = "update_bot_data" /\ last'.op = "get_bot_data")
               => last'.ret = last.arg
         /\ (last.op = "update_callback_data" /\ last'.op = "get_callback_data")
               => last'.ret = last.arg]_vars

\* C2: in immediate-write mode, when update_X(id, D) with D different from the
\* cached value returns without error, the store holds a committed row for id
\* whose data is D, whatever came before (nothing at all included).
C2_ImmediateWriteThrough ==
    [][(~on_flush /\ last'.exc = "none") =>
         /\ (last'.op = "update_user_data"
               /\ (user_data = PyNone \/ DictGet(user_data, last'.id, PyNone) # last'.arg))
               => HoldsRow(db', "user", last'.id, last'.arg)
         /\ (last'.op = "update_chat_data"
               /\ (chat_data = PyNone \/ DictGet(chat_data, last'.id, PyNone) # last'.arg))
               => HoldsRow(db', "chat", last'.id, last'.arg)
         /\ (last'.op = "update_bot_data" /\ bot_data # last'.arg)
               => HoldsRow(db', "bot", PyInt(1), last'.arg)
         /\ (last'.op = "update_callback_data" /\ callback_data # last'.arg)
               => HoldsRow(db', "callback", PyInt(1), last'.arg)]_vars

\* The statement state a call made right after the step would start from.
StartAfter ==
    [conn |-> conn', tx |-> tx', db |-> db', exc |-> "none", val |-> PyNone,
     stmts |-> {}, ts |-> postgres_timestamp', uj |-> ujson',
     tries |-> [k \in StatementKinds |-> 0], errs |-> {}, n |-> 0, failed |-> 0,
     plan |-> plan']

\* C3: in immediate-write mode, after update_user_data(id, D) and then
\* drop_user_data(id), get_user_data() does not contain id and the store holds
\* no row for id; the same for chat data.
C3_DropRemovesRow ==
    [][(~on_flush /\ last.exc = "none" /\ last'.exc = "none" /\ last'.id = last.id) =>
         /\ (last.op = "update_user_data" /\ last'.op = "drop_user_data")
               => /\ last.id \notin DOMAIN db'.rows["user"]
                  /\ last.id \notin DOMAIN GetKeyedFrom(StartAfter, user_data', "user").ret[2]
         /\ (last.op = "update_chat_data" /\ last'.op = "drop_chat_data")
               => /\ last.id \notin DOMAIN db'.rows["chat"]
                  /\ last.id \notin DOMAIN GetKeyedFrom(StartAfter, chat_data', "chat").ret[2]]_vars

\* The update_* and drop_* calls.
Mutators ==
    {"update_user_data", "update_chat_data", "update_bot_data", "update_callback_data",
     "update_conversation", "drop_user_data", "drop_chat_data"}

\* C4: in deferred-write mode no update_* or drop_* issues an INSERT, an
\* UPDATE or a commit (the engine has no DELETE), and none changes the store.
C4_DeferredNoWrite ==
    [][(on_flush /\ last'.op \in Mutators)
          => db' = db /\ tx' = tx /\ last'.stmts \cap {"insert", "update", "commit"} = {}]_vars

\* A deferred-mode update_* or drop_* has changed the cache and the store is
\* as it was.
C4_Witness ==
    /\ on_flush
    /\ last.op \in Mutators
    /\ \/ last.op = "update_user_data" /\ user_data # PyNone /\ db.rows["user"] = <<>>
       \/ last.op = "drop_user_data" /\ user_data = EmptyDict /\ db.rows["user"] # <<>>

\* C5: in deferred-write mode, update_bot_data(D) followed by flush(): flush
\* returns without error and the store's bot row (id 1) is D, whatever came
\* before (nothing at all included).
C5_FlushWritesBotRow ==
    [][(on_flush /\ last.op = "update_bot_data" /\ last.exc = "none" /\ last'.op = "flush")
          => last'.exc = "none" /\ HoldsRow(db', "bot", PyInt(1), last.arg)]_vars

\* C6: in immediate-write mode, calling update_user_data(id, D) twice in a row
\* with the same D leaves exactly one store row with that id, and the second
\* call issues no statement against the store and does not change the cache.
\* The second call is the one the engine would make in the state the first
\* has left.
C6_IdempotentUpsert ==
    (~on_flush /\ last.op = "update_user_data" /\ last.exc = "none") =>
        LET r == UpdateKeyed(user_data, "user", last.id, last.arg)
        IN  /\ r.s.exc = "none"
            /\ r.s.stmts = {}
            /\ r.cache = user_data
            /\ r.s.db = db
            /\ last.id \in DOMAIN r.s.db.rows["user"]

\* The get_* calls that return a deepcopy of their slot.
DeepGetters == {"get_user_data", "get_chat_data", "get_bot_data", "get_callback_data"}

\* What the get_* named op would return now.
GetAgain(op) ==
    CASE op = "get_user_data" -> GetKeyed(user_data, "user").ret
      [] op = "get_chat_data" -> GetKeyed(chat_data, "chat").ret
      [] op = "get_bot_data" -> GetBotData.ret
      [] op = "get_callback_data" -> GetCallbackData.ret

\* C7: whatever the caller assigns, at any depth, into the object that
\* get_user_data, get_chat_data, get_bot_data or get_callback_data returned,
\* the next call of the same get_* returns what that call returned.
C7_GetIsolation ==
    (last.op \in DeepGetters /\ last.exc = "none") => GetAgain(last.op) = last.ret

\* The caller has assigned into a document nested in what get_chat_data
\* returned, and the cache is as it was.
C7_Witness ==
    /\ last.op = "get_chat_data"
    /\ last.exc = "none"
    /\ held.ent = "chat"
    /\ chat_data = last.ret
    /\ \E i \in DOMAIN last.ret[2] :
          /\ held.val[2][i] # last.ret[2][i]
          /\ held.val[2][i] # Marker

\* C8: whatever the caller assigns into the mapping get_conversations(name)
\* returned, a state value nested in it included, the next
\* get_conversations(name) returns what that call returned.
C8_ConversationsDeepCopy ==
    (last.op = "get_conversations" /\ last.exc = "none")
        => GetConversations(last.name).ret = last.ret

\* C9: with a connection open, a second _create_schema right after a first, and
\* a second _create_table right after a first for the same table, does not
\* raise and leaves the schema, the table and (with timestamp tracking) the
\* table's trigger in the store; with timestamp tracking on and off.
C9_IdempotentProvisioning ==
    [][(conn = "open" /\ last.exc = "none" /\ last'.op = last.op /\ last'.name = last.name) =>
         /\ last.op = "create_schema" => last'.exc = "none" /\ db'.schema
         /\ last.op = "create_table"
               => /\ last'.exc = "none"
                  /\ last.name[2] \in db'.tables
                  /\ postgres_timestamp => last.name[2] \in db'.trig]_vars

\* C10: update_conversation(h, K, S) followed by get_conversations(h) returns a
\* mapping in which K maps to S (a state of None reads as K mapping to nothing),
\* and followed by get_conversations(h2) for a handler h2 that is never
\* updated returns the empty mapping; in immediate and in deferred mode, and
\* whether or not the write-through of the update raised.
C10_ConversationScoped ==
    [][(last.op = "update_conversation"
        /\ last'.op = "get_conversations" /\ last'.exc = "none") =>
         /\ last'.name = last.name => DictGet(last'.ret, last.id, PyNone) = last.arg
         /\ last'.name \notin Handlers => last'.ret = EmptyDict]_vars

\* In deferred mode get_conversations("conv1") has returned {(111, None): "STATE_A"}.
C10_Witness ==
    /\ on_flush
    /\ last.op = "get_conversations"
    /\ last.exc = "none"
    /\ last.name = PyStr("conv1")
    /\ last.ret = Single(PyTuple(<<PyInt(111), PyNone>>), PyStr("STATE_A"))

\* C11: a conversation stored under the composite key K comes back under K:
\* in the mapping get_conversations(h) returns after loading the conversation
\* row from the store, every key is a composite key (a tuple), as stored.
C11_KeyRoundTrip ==
    (last.op = "get_conversations" /\ last.exc = "none" /\ "select" \in last.stmts)
        => DOMAIN last.ret[2] \subseteq ConvKeys

\* The calls that make one load of a table, or one dump of a one-row batch.
OneStoreOperation == {"get_user_data", "get_bot_data", "update_bot_data"}

\* C12: whatever the store does, in a call that makes one load of a table or
\* one dump of a one-row batch no statement is attempted more than 3 times,
\* the attempts of the retry-wrapped helpers it calls included.
C12_RetryBound ==
    last.op \in OneStoreOperation
        => \A k \in StatementKinds \ {"connect", "commit"} : last.tries[k] <= StopAfterAttempt

\* The errors that tell the caller the store could not be used: tenacity's
\* RetryError, the TypeError the engine raises for a failed statement or
\* connect, and psycopg's OperationalError itself.
StorageErrors == {"RetryError", "TypeError", "OperationalError"}

\* C13: a call in which every interaction with the store failed for the store
\* being unreachable (and there was at least one) ends by raising one of the
\* storage errors; it does not return normally.
C13_FailureSurfaces ==
    (last.n > 0 /\ last.failed = last.n) => last.exc \in StorageErrors

\* An immediate-mode update_user_data whose every interaction failed.
C13_Witness ==
    /\ ~on_flush
    /\ last.op = "update_user_data"
    /\ last.tries["check_key"] > 0
    /\ last.failed = last.n
    /\ last.exc = "RetryError"

\* C14: with the store reachable throughout, an error met inside a store
\* operation (a document json.dumps cannot serialize, an SQL error) reaches
\* the caller as that error; it is not retried into tenacity's RetryError.
C14_NonTransientNotRetried ==
    (plan = NoFault /\ last.errs # {}) => last.exc \in last.errs

\* C15: on one instance the row-selecting read of an entity's table is
\* executed at most once: a get_* that follows a get_* of the same entity
\* which read the table issues no SELECT of rows, also when the cached value
\* is empty.
C15_ReadOnce ==
    [][(last.op \in DeepGetters /\ last.exc = "none" /\ "select" \in last.stmts
        /\ last'.op = last.op /\ last' # last)
          => "select" \notin last'.stmts]_vars

\* C16: on a fresh instance whose store already holds user rows, whichever
\* update_user_data(i, d) comes first, the get_user_data() that follows it
\* returns the stored rows of the other ids together with i -> d.
C16_LoadOnFirstWrite ==
    (last.op = "init" /\ "user" \in store_data) =>
        \A i \in Ids, d \in Docs :
            LET u == UpdateKeyed(user_data, "user", i, d)
                g == GetKeyedFrom(u.s, u.cache, "user")
            IN  (u.s.exc = "none" /\ g.s.exc = "none") =>
                    /\ DictGet(g.ret, i, PyNone) = d
                    /\ \A j \in (DOMAIN db.rows["user"]) \ {i} :
                          DictGet(g.ret, j, PyNone) = db.rows["user"][j]

\* C17: no call issues a statement against a table that does not exist: the
\* schema and the table are there before any existence check, SELECT, INSERT
\* or UPDATE of rows, whichever call touches the entity first.
C17_ProvisionedBeforeUse ==
    "UndefinedTable" \notin last.errs

\* C18: with one instance making its calls one at a time, whatever the store's
\* outages, no INSERT is issued for an id that already has a row, committed or
\* pending in the transaction (the store would answer IntegrityError); every
\* table is a function from ids to documents, one row per id.
C18_NoDuplicateInsert ==
    "IntegrityError" \notin last.errs

\* A dump that lost the store once has gone on to UPDATE the row that was
\* there and INSERT the one that was not, and has returned.
C18_Witness ==
    /\ last.op = "update_user_data"
    /\ last.exc = "none"
    /\ last.failed > 0
    /\ last.tries["update"] > 0
    /\ last.tries["insert"] > 0
    /\ Cardinality(DOMAIN db.rows["user"]) = MaxId

\* C19: whatever the store's outages, a store that stays unreachable and
\* reconnects that fail included, every call ends, returning or raising, after
\* a bounded number of attempts: no kind of statement is attempted more than
\* TriesBound times, and there is at most one connect for each attempt of the
\* load and one for each statement or commit that was attempted.
C19_BoundedTermination ==
    /\ \A k \in StatementKinds \ {"connect"} : last.tries[k] <= TriesBound(k)
    /\ last.tries["connect"] <= StopAfterAttempt + (last.n - last.tries["connect"])

\* A get_* has ended in RetryError with the store unreachable from its second
\* interaction on: every reconnect failed and every retry was used.
C19_Witness ==
    /\ plan.ever
    /\ last.op = "get_user_data"
    /\ last.exc = "RetryError"
    /\ last.tries["check_schema"] = StopAfterAttempt * StopAfterAttempt
    /\ last.tries["connect"] > StopAfterAttempt
    /\ last.failed = last.n - 1

\* The calls that dump the user mapping as one batch.
UserDumpers == {"update_user_data", "drop_user_data", "flush"}

\* C20: a call that dumps the user mapping and loses the store on the way
\* leaves the user table as it was or with every row of the batch written;
\* it never commits some rows of the batch and not the others.
C20_BatchAtomic ==
    [][(last'.op \in UserDumpers /\ last' # last /\ last'.failed > 0 /\ user_data' # PyNone)
          => \/ db'.rows["user"] = db.rows["user"]
             \/ \A i \in DOMAIN user_data'[2] :
                    HoldsRow(db', "user", i, user_data'[2][i])]_vars

C22_SerializedUpserts ==
    serialized =>
        \A w \in Writers :
            /\ "IntegrityError" \notin writers[w].errs
            /\ writers[w].exc = "none"
            /\ (writers[w].id # PyNone /\ \A v \in Writers : writers[v].pc = "idle")
                  => \E v \in Writers :
                        /\ writers[w].id \in DOMAIN writers[v].cache[2]
                        /\ HoldsRow(db, "user", writers[w].id,
                                    writers[v].cache[2][writers[w].id])

\* Not serialized: both writers saw the id absent and both issued the INSERT;
\* the second INSERT met the duplicate key, its call ended in RetryError and
\* the store holds the other writer's value, not the one this writer cached.
C22_Witness ==
    /\ ~serialized
    /\ \E w \in Writers, v \in Writers :
          /\ w # v
          /\ writers[w].pc = "idle" /\ writers[v].pc = "idle"
          /\ writers[w].id = writers[v].id /\ writers[w].id # PyNone
          /\ ~writers[w].saw /\ ~writers[v].saw
          /\ "insert" \in writers[w].stmts /\ "insert" \in writers[v].stmts
          /\ writers[w].exc = "none"
          /\ "IntegrityError" \in writers[v].errs
          /\ writers[v].exc = "RetryError"
          /\ HoldsRow(db, "user", writers[w].id, writers[w].cache[2][writers[w].id])
          /\ ~HoldsRow(db, "user", writers[v].id, writers[v].cache[2][writers[v].id])

\* The statements that read or write rows.
RowStatements == {"check_key", "insert", "update", "select"}

\* C23: drop_user_data(id) and drop_chat_data(id) with the entity's cache
\* unloaded, or with id absent from it, leave the cache as it is and issue no
\* statement on the entity's rows, in immediate mode too.  The drop is the one
\* the engine would make in this state.
C23_DropAbsentNoOp ==
    /\ "user" \in store_data =>
          \A i \in Ids :
             (user_data = PyNone \/ i \notin DOMAIN user_data[2]) =>
                 LET r == DropKeyed(user_data, "user", i)
                 IN  r.cache = user_data /\ r.s.stmts \cap RowStatements = {}
    /\ "chat" \in store_data =>
          \A i \in Ids :
             (chat_data = PyNone \/ i \notin DOMAIN chat_data[2]) =>
                 LET r == DropKeyed(chat_data, "chat", i)
                 IN  r.cache = chat_data /\ r.s.stmts \cap RowStatements = {}

\* The state the conversation cache holds for key k of handler n, None when
\* the cache, the handler or the key is not there.
CachedState(n, k) ==
    IF conversations # PyNone /\ n \in DOMAIN conversations[2]
    THEN DictGet(conversations[2][n], k, PyNone)
    ELSE PyNone

\* C24: update_conversation(h, K, S) with S equal to the cached state of
\* (h, K), S = None for an absent key or handler included, leaves the
\* conversation cache exactly as it was (no new handler entry, no new key)
\* and issues no statement.  The update is the one the engine would make in
\* this state.
C24_UnchangedConversationNoOp ==
    "conversations" \in store_data =>
        \A n \in Handlers, k \in ConvKeys, st \in States :
            CachedState(n, k) = st =>
                LET r == UpdateConversation(n, k, st)
                IN  r.cache = conversations /\ r.s.stmts = {}

\* C25: when an immediate-mode update_user_data(id, D) or update_bot_data(D)
\* raises because the write to the store failed, the cache holds for id (for
\* the bot data) the value it held before the call.
C25_CacheUnchangedOnError ==
    [][(~on_flush /\ last' # last /\ last'.exc # "none") =>
         /\ last'.op = "update_user_data"
               => DictGet(user_data', last'.id, PyNone)
                    = (IF user_data = PyNone THEN PyNone
                       ELSE DictGet(user_data, last'.id, PyNone))
         /\ last'.op = "update_bot_data" => bot_data' = bot_data]_vars

\* The value the slot of the last update_* holds for the id of that call.
CachedFor(op, id) ==
    CASE op = "update_user_data" ->
           IF user_data = PyNone THEN PyNone ELSE DictGet(user_data, id, PyNone)
      [] op = "update_chat_data" ->
           IF chat_data = PyNone THEN PyNone ELSE DictGet(chat_data, id, PyNone)
      [] op = "update_bot_data" -> bot_data

\* C26: after update_user_data(id, D), update_chat_data(id, D) or
\* update_bot_data(D), when the caller has assigned into D the cached value is
\* still the D that was passed, so the mutated D compares unequal to it and a
\* following update with it is taken as a change.
C26_NoArgumentAliasing ==
    (last.op \in {"update_user_data", "update_chat_data", "update_bot_data"}
     /\ held.ent # "none" /\ held.val # last.arg)
        => /\ CachedFor(last.op, last.id) = last.arg
           /\ CachedFor(last.op, last.id) # held.val

====
